---- MODULE Spec2Model ----
(***************************************************************************)
(* A state-machine model of NMT.py: vocabulary construction, the corpus to *)
(* tensor conversion, the batch collator, the sequence-to-sequence driver, *)
(* the train / evaluate loops, the epoch loop of the command line driver   *)
(* and the BLEU helper.                                                     *)
(*                                                                         *)
(* Representation.  A 1-D index tensor is a sequence of integers.  A       *)
(* time-major batch tensor is a sequence of rows, each row a sequence with *)
(* one entry per batch element.  A logits vector over a vocabulary of V    *)
(* entries is a sequence of length V whose entry v+1 scores index v.       *)
(* Real numbers (logits, hidden states, parameters, losses) are abstracted *)
(* to small naturals; the neural layers are deterministic functions of     *)
(* their inputs, the parameters and the dropout noise.  The tokenizers are *)
(* external: a file is a sequence of lines, each already a token sequence. *)
(***************************************************************************)
EXTENDS Integers, Sequences, FiniteSets, TLC

VARIABLES
    pc,            \* position of the script / of the function under study
    error,         \* "none", or the name of the exception that ended the run
    \* ---- vocabulary and data pipeline (lines 24-44, 261-269, 289-306, 340-342)
    train_de, train_en,      \* contents of train_path[0], train_path[1]
    de_vocab, en_vocab,
    PAD_IDX, BOS_IDX, EOS_IDX, PAD_IDX2,
    train_data, test_data,
    ignore_index,            \* the criterion's ignore_index
    data_batch,              \* the list handed to generate_batch
    \* ---- model, loops, driver (lines 162-238, 344-369)
    mode,                    \* arg.mode
    training,                \* nn.Module.training
    params,                  \* the model parameters
    caller,                  \* the loop function that is running
    pending,                 \* batches the iterator has not yielded yet
    n_batches,               \* len(iterator)
    epoch_loss,
    src, trg,                \* the current batch
    tf_ratio,                \* Seq2Seq.forward's teacher_forcing_ratio argument
    outputs, output, hidden, encoder_outputs, t, teacher_force,
    calls,                   \* decoder invocations of the current forward call
    writes,                  \* writes[r]: assignments to row r-1 of outputs
    loss,
    epoch, old_loss, train_loss, saved,
    losses,                  \* the values evaluate has returned so far
    \* ---- testBleuScore (lines 248-259)
    pairs, pair_i, output_words, bleu

dataVars == <<train_de, train_en, de_vocab, en_vocab, PAD_IDX, BOS_IDX, EOS_IDX,
              PAD_IDX2, train_data, test_data, ignore_index, data_batch>>
fwdVars  == <<tf_ratio, outputs, output, hidden, encoder_outputs, t,
              teacher_force, calls, writes>>
loopVars == <<training, params, caller, pending, n_batches, epoch_loss>>
mainVars == <<mode, epoch, old_loss, train_loss, saved, losses>>
bleuVars == <<pairs, pair_i, output_words, bleu>>
vars == <<pc, error, dataVars, src, trg, loss, fwdVars, loopVars, mainVars, bleuVars>>

----------------------------------------------------------------------------
(* Bounds of the model *)

MaxLines   == 2    \* lines per corpus file
MaxLineLen == 1    \* tokens per line

(* Token alphabets of the files.  Each training alphabet holds a reserved  *)
(* symbol, so a corpus may contain one as an ordinary token; the test      *)
(* alphabets hold only tokens that no training corpus contains.            *)
DeTokens     == {"haus", "<pad>"}
EnTokens     == {"house"}
TestDeTokens == {"katze"}
TestEnTokens == {"cat"}
VocTokens    == {"the", "cat", "<eos>"}

----------------------------------------------------------------------------
(* Generic helpers *)

Range(s) == {s[i] : i \in DOMAIN s}

SeqsUpTo(S, n) == UNION {[1..k -> S] : k \in 0..n}

NonEmptySeqsUpTo(S, n) == UNION {[1..k -> S] : k \in 1..n}

Max(S) == CHOOSE x \in S : \A y \in S : y <= x

Min2(a, b) == IF a <= b THEN a ELSE b

RECURSIVE SumSeq(_)
SumSeq(s) == IF s = <<>> THEN 0 ELSE Head(s) + SumSeq(Tail(s))

RECURSIVE Flatten(_)
Flatten(rows) == IF rows = <<>> THEN <<>> ELSE Head(rows) \o Flatten(Tail(rows))

Perms(n) == {p \in [1..n -> 1..n] : \A i, j \in 1..n : p[i] = p[j] => i = j}

Lines(Alphabet) == SeqsUpTo(Alphabet, MaxLineLen)

Files(Alphabet) == NonEmptySeqsUpTo(Lines(Alphabet), MaxLines)

----------------------------------------------------------------------------
(* Vocabulary: collections.Counter and torchtext.vocab.vocab, as loadVoc    *)
(* uses them.  A Counter is a dict: entries in order of first insertion.    *)

specials == <<"<unk>", "<pad>", "<bos>", "<eos>">>

min_freq == 1

NoDefault == -1

CounterAdd(counter, tok) ==
    IF \E i \in DOMAIN counter : counter[i].tok = tok
    THEN [i \in DOMAIN counter |->
            IF counter[i].tok = tok
            THEN [tok |-> tok, n |-> counter[i].n + 1]
            ELSE counter[i]]
    ELSE Append(counter, [tok |-> tok, n |-> 1])

RECURSIVE CounterUpdate(_, _)
CounterUpdate(counter, toks) ==
    IF toks = <<>> THEN counter
    ELSE CounterUpdate(CounterAdd(counter, Head(toks)), Tail(toks))

RECURSIVE CountFile(_, _)
CountFile(counter, lines) ==
    IF lines = <<>> THEN counter
    ELSE CountFile(CounterUpdate(counter, Head(lines)), Tail(lines))

Keep(entry) == entry.n >= min_freq

NotSpecial(entry) == entry.tok \notin Range(specials)

(* A plausible slip: special_first = False, the reserved symbols go last.  *)
vocab_specials_last(ordered_dict) ==
    LET kept == SelectSeq(SelectSeq(ordered_dict, NotSpecial), Keep)
    IN  [itos |-> [i \in DOMAIN kept |-> kept[i].tok] \o specials,
         default_index |-> NoDefault]

(* vocab(counter, specials=[...]): the specials are popped from the dict,  *)
(* the tokens with freq >= min_freq are kept in dict order, and the        *)
(* specials are inserted in front.  No default index is set.               *)
vocab(ordered_dict) ==
    LET kept == SelectSeq(SelectSeq(ordered_dict, NotSpecial), Keep)
    IN  [itos |-> specials \o [i \in DOMAIN kept |-> kept[i].tok],
         default_index |-> NoDefault]

loadVoc(lines) == vocab(CountFile(<<>>, lines))

Contains(v, tok) == \E i \in DOMAIN v.itos : v.itos[i] = tok

IndexOf(v, tok) == (CHOOSE i \in DOMAIN v.itos : v.itos[i] = tok) - 1

(* Vocab.__getitem__ raises RuntimeError for an absent token when no       *)
(* default index is set.                                                   *)
LookupRaises(v, tok) == ~Contains(v, tok) /\ v.default_index = NoDefault

Lookup(v, tok) == IF Contains(v, tok) THEN IndexOf(v, tok) ELSE v.default_index

(* A plausible slip: the default index is never set. *)
set_default_index_skipped(v, index) == v

set_default_index(v, index) == [v EXCEPT !.default_index = index]

----------------------------------------------------------------------------
(* Corpus-to-tensor conversion and the batch collator *)

BATCH_SIZE == 128

init_weights == 0   \* the parameters as init_weights leaves them

Levels == 3    \* quantisation levels of the abstracted real numbers

Precision == 12   \* a loss is kept in units of 1 / Precision

NaN == -1      \* the mean of no terms

Mean(total, n) == (total * Precision) \div n

(* dataPrep(en, de) reads the module-level de_vocab and en_vocab; zip stops *)
(* at the shorter file.                                                     *)
dataPrepRaises(en, de) ==
    \E i \in 1..Min2(Len(de), Len(en)) :
        \/ \E k \in DOMAIN de[i] : LookupRaises(de_vocab, de[i][k])
        \/ \E k \in DOMAIN en[i] : LookupRaises(en_vocab, en[i][k])

dataPrep(en, de) ==
    [i \in 1..Min2(Len(de), Len(en)) |->
        << [k \in DOMAIN de[i] |-> Lookup(de_vocab, de[i][k])],
           [k \in DOMAIN en[i] |-> Lookup(en_vocab, en[i][k])] >>]

(* torch.nn.utils.rnn.pad_sequence, batch_first = False *)
pad_sequence(sequences, padding_value) ==
    LET max_len == Max({Len(sequences[b]) : b \in DOMAIN sequences})
    IN  [r \in 1..max_len |->
            [b \in DOMAIN sequences |->
                IF r <= Len(sequences[b]) THEN sequences[b][r] ELSE padding_value]]

(* A plausible slip: the end marker is not appended. *)
generate_batch_no_eos(batch) ==
    LET de_batch == [i \in DOMAIN batch |-> <<BOS_IDX>> \o batch[i][1]]
        en_batch == [i \in DOMAIN batch |-> <<BOS_IDX>> \o batch[i][2]]
    IN  <<pad_sequence(de_batch, PAD_IDX), pad_sequence(en_batch, PAD_IDX)>>

(* generate_batch reads the module-level BOS_IDX, EOS_IDX and PAD_IDX. *)
generate_batch(batch) ==
    LET de_batch == [i \in DOMAIN batch |-> <<BOS_IDX>> \o batch[i][1] \o <<EOS_IDX>>]
        en_batch == [i \in DOMAIN batch |-> <<BOS_IDX>> \o batch[i][2] \o <<EOS_IDX>>]
    IN  <<pad_sequence(de_batch, PAD_IDX), pad_sequence(en_batch, PAD_IDX)>>

(* DataLoader(data, BATCH_SIZE, shuffle = True, collate_fn = generate_batch): *)
(* one pass permutes the examples and cuts the permuted list into chunks of *)
(* BATCH_SIZE; Chunks gives the lists handed to the collate function.       *)
NumBatches(n) == (n + BATCH_SIZE - 1) \div BATCH_SIZE

Chunks(data, p) ==
    [k \in 1..NumBatches(Len(data)) |->
        [j \in 1..Min2(BATCH_SIZE, Len(data) - (k - 1) * BATCH_SIZE) |->
            data[p[(k - 1) * BATCH_SIZE + j]]]]

(* nn.CrossEntropyLoss(ignore_index), mean reduction, on flattened logits   *)
(* and targets.  The per-position term is abstracted to the gap between the *)
(* best score and the target's score (zero exactly when the target is a     *)
(* best-scored index).  A target that is neither ignored nor a class index  *)
(* raises IndexError.                                                       *)
Cost(logits, target) == Max(Range(logits)) - logits[target + 1]

Counted(target, ignored) == {i \in DOMAIN target : target[i] # ignored}

criterionRaises(logits, target, ignored) ==
    \E i \in Counted(target, ignored) : target[i] + 1 \notin DOMAIN logits[i]

(* A plausible slip: the criterion is built without ignore_index. *)
criterion_counts_padding(logits, target, ignored) ==
    Mean(SumSeq([i \in DOMAIN target |-> Cost(logits[i], target[i])]), Len(target))

criterion(logits, target, ignored) ==
    LET counted == Counted(target, ignored)
    IN  IF counted = {} THEN NaN
        ELSE Mean(SumSeq([i \in DOMAIN target |->
                             IF i \in counted THEN Cost(logits[i], target[i]) ELSE 0]),
                  Cardinality(counted))

----------------------------------------------------------------------------
(* Values of variables that have not been assigned yet *)

Unset == NoDefault

NoVocab == [itos |-> <<>>, default_index |-> NoDefault]

IdleData ==
    /\ train_de = <<>> /\ train_en = <<>>
    /\ de_vocab = NoVocab /\ en_vocab = NoVocab
    /\ PAD_IDX = Unset /\ BOS_IDX = Unset /\ EOS_IDX = Unset /\ PAD_IDX2 = Unset
    /\ train_data = <<>> /\ test_data = <<>>
    /\ ignore_index = Unset /\ data_batch = <<>>

IdleFwd ==
    /\ tf_ratio = Unset /\ outputs = <<>> /\ output = <<>> /\ hidden = <<>>
    /\ encoder_outputs = <<>> /\ t = 0 /\ teacher_force = FALSE
    /\ calls = 0 /\ writes = <<>>

IdleLoop ==
    /\ training = TRUE /\ params = init_weights /\ caller = "none"
    /\ pending = <<>> /\ n_batches = 0 /\ epoch_loss = 0

IdleMain ==
    /\ mode = "none" /\ epoch = 0 /\ old_loss = 0 /\ train_loss = 0
    /\ saved = 0 /\ losses = <<>>

IdleBleu ==
    /\ pairs = <<>> /\ pair_i = 0 /\ output_words = "unbound" /\ bleu = <<>>

IdleBatch == src = <<>> /\ trg = <<>> /\ loss = 0

----------------------------------------------------------------------------
(* The script's set-up, lines 289-342 *)

InitData ==
    /\ pc = "L292" /\ error = "none"
    /\ train_de \in Files(DeTokens) /\ train_en \in Files(EnTokens)
    /\ de_vocab = NoVocab /\ en_vocab = NoVocab
    /\ PAD_IDX = Unset /\ BOS_IDX = Unset /\ EOS_IDX = Unset /\ PAD_IDX2 = Unset
    /\ train_data = <<>> /\ test_data = <<>>
    /\ ignore_index = Unset /\ data_batch = <<>>
    /\ IdleBatch /\ IdleFwd /\ IdleLoop /\ IdleMain /\ IdleBleu

(* line 292 *)
LoadDeVocab ==
    /\ pc = "L292"
    /\ de_vocab' = loadVoc(train_de)
    /\ pc' = "L293"
    /\ UNCHANGED <<error, train_de, train_en, en_vocab, PAD_IDX, BOS_IDX, EOS_IDX,
                   PAD_IDX2, train_data, test_data, ignore_index, data_batch,
                   src, trg, loss, fwdVars, loopVars, mainVars, bleuVars>>

(* line 293 *)
LoadEnVocab ==
    /\ pc = "L293"
    /\ en_vocab' = loadVoc(train_en)
    /\ pc' = "L295"
    /\ UNCHANGED <<error, train_de, train_en, de_vocab, PAD_IDX, BOS_IDX, EOS_IDX,
                   PAD_IDX2, train_data, test_data, ignore_index, data_batch,
                   src, trg, loss, fwdVars, loopVars, mainVars, bleuVars>>

(* line 295 *)
SetDefaultDe ==
    /\ pc = "L295"
    /\ IF LookupRaises(de_vocab, "<unk>")
       THEN /\ error' = "RuntimeError" /\ pc' = "crashed" /\ UNCHANGED de_vocab
       ELSE /\ de_vocab' = set_default_index(de_vocab, Lookup(de_vocab, "<unk>"))
            /\ pc' = "L296" /\ UNCHANGED error
    /\ UNCHANGED <<train_de, train_en, en_vocab, PAD_IDX, BOS_IDX, EOS_IDX,
                   PAD_IDX2, train_data, test_data, ignore_index, data_batch,
                   src, trg, loss, fwdVars, loopVars, mainVars, bleuVars>>

(* line 296 *)
SetDefaultEn ==
    /\ pc = "L296"
    /\ IF LookupRaises(en_vocab, "<unk>")
       THEN /\ error' = "RuntimeError" /\ pc' = "crashed" /\ UNCHANGED en_vocab
       ELSE /\ en_vocab' = set_default_index(en_vocab, Lookup(en_vocab, "<unk>"))
            /\ pc' = "L298" /\ UNCHANGED error
    /\ UNCHANGED <<train_de, train_en, de_vocab, PAD_IDX, BOS_IDX, EOS_IDX,
                   PAD_IDX2, train_data, test_data, ignore_index, data_batch,
                   src, trg, loss, fwdVars, loopVars, mainVars, bleuVars>>

(* lines 298-300: the three indices are taken from the source vocabulary *)
SpecialIndices ==
    /\ pc = "L298"
    /\ PAD_IDX' = Lookup(de_vocab, "<pad>")
    /\ BOS_IDX' = Lookup(de_vocab, "<bos>")
    /\ EOS_IDX' = Lookup(de_vocab, "<eos>")
    /\ pc' = "L302"
    /\ UNCHANGED <<error, train_de, train_en, de_vocab, en_vocab,
                   PAD_IDX2, train_data, test_data, ignore_index, data_batch,
                   src, trg, loss, fwdVars, loopVars, mainVars, bleuVars>>

(* line 302: dataPrep(train_path[1], train_path[0]) *)
PrepTrainData ==
    /\ pc = "L302"
    /\ IF dataPrepRaises(train_en, train_de)
       THEN /\ error' = "RuntimeError" /\ pc' = "crashed" /\ UNCHANGED train_data
       ELSE /\ train_data' = dataPrep(train_en, train_de)
            /\ pc' = "L303" /\ UNCHANGED error
    /\ UNCHANGED <<train_de, train_en, de_vocab, en_vocab, PAD_IDX, BOS_IDX, EOS_IDX,
                   PAD_IDX2, test_data, ignore_index, data_batch,
                   src, trg, loss, fwdVars, loopVars, mainVars, bleuVars>>

(* The test files: one line each, over tokens the training files lack. *)
TestFilesDe == {<<line>> : line \in [1..1 -> TestDeTokens]}

TestFilesEn == {<<line>> : line \in [1..1 -> TestEnTokens]}

(* line 303: dataPrep(test_path[1], test_path[0]) *)
PrepTestData ==
    /\ pc = "L303"
    /\ \E test_de \in TestFilesDe, test_en \in TestFilesEn :
          IF dataPrepRaises(test_en, test_de)
          THEN /\ error' = "RuntimeError" /\ pc' = "crashed" /\ UNCHANGED test_data
          ELSE /\ test_data' = dataPrep(test_en, test_de)
               /\ pc' = "L340" /\ UNCHANGED error
    /\ UNCHANGED <<train_de, train_en, de_vocab, en_vocab, PAD_IDX, BOS_IDX, EOS_IDX,
                   PAD_IDX2, train_data, ignore_index, data_batch,
                   src, trg, loss, fwdVars, loopVars, mainVars, bleuVars>>

(* lines 340-342: the criterion ignores the target vocabulary's padding index *)
MakeCriterion ==
    /\ pc = "L340"
    /\ PAD_IDX2' = Lookup(en_vocab, "<pad>")
    /\ ignore_index' = Lookup(en_vocab, "<pad>")
    /\ pc' = "L347"
    /\ UNCHANGED <<error, train_de, train_en, de_vocab, en_vocab, PAD_IDX, BOS_IDX,
                   EOS_IDX, train_data, test_data, data_batch,
                   src, trg, loss, fwdVars, loopVars, mainVars, bleuVars>>

----------------------------------------------------------------------------
(* One batch through the collator and the loss, lines 196-206 and 226-234. *)
(* The model's logits are a fixed tensor of the batch's shape here; the    *)
(* sequence driver that produces them is modelled further below.           *)

OUTPUT_DIM == Len(en_vocab.itos)

ZeroRow(batch_size, dim) == [b \in 1..batch_size |-> [v \in 1..dim |-> 0]]

ModelOutput(target, dim) ==
    [r \in DOMAIN target |->
        IF r = 1 THEN ZeroRow(Len(target[1]), dim)
        ELSE [b \in DOMAIN target[r] |-> [v \in 1..dim |-> (r + b + v) % Levels]]]

(* The DataLoader yields a batch: a shuffled chunk of the data set goes     *)
(* through generate_batch (train reads train_iter, evaluate test_iter).    *)
CollateBatch ==
    /\ pc = "L347"
    /\ \E fn \in {"train", "evaluate"} :
         LET data == IF fn = "train" THEN train_data ELSE test_data
         IN  /\ data # <<>>
             /\ caller' = fn
             /\ \E p \in Perms(Len(data)) :
                  /\ data_batch' = Chunks(data, p)[1]
                  /\ src' = generate_batch(Chunks(data, p)[1])[1]
                  /\ trg' = generate_batch(Chunks(data, p)[1])[2]
    /\ pc' = "L206"
    /\ UNCHANGED <<error, train_de, train_en, de_vocab, en_vocab, PAD_IDX, BOS_IDX,
                   EOS_IDX, PAD_IDX2, train_data, test_data, ignore_index, loss,
                   fwdVars, training, params, pending, n_batches, epoch_loss,
                   mainVars, bleuVars>>

(* output[1:].view(-1, V), trg[1:].view(-1), criterion(output, trg) *)
LossOnBatch ==
    /\ pc = "L206"
    /\ outputs' = ModelOutput(trg, OUTPUT_DIM)
    /\ IF criterionRaises(Flatten(Tail(outputs')), Flatten(Tail(trg)), ignore_index)
       THEN /\ error' = "IndexError" /\ pc' = "crashed" /\ UNCHANGED loss
       ELSE /\ loss' = criterion(Flatten(Tail(outputs')), Flatten(Tail(trg)), ignore_index)
            /\ pc' = "scored" /\ UNCHANGED error
    /\ UNCHANGED <<dataVars, src, trg, tf_ratio, output, hidden, encoder_outputs, t,
                   teacher_force, calls, writes, loopVars, mainVars, bleuVars>>

NextData ==
    \/ LoadDeVocab \/ LoadEnVocab \/ SetDefaultDe \/ SetDefaultEn \/ SpecialIndices
    \/ PrepTrainData \/ PrepTestData \/ MakeCriterion \/ CollateBatch \/ LossOnBatch

SpecData == InitData /\ [][NextData]_vars

----------------------------------------------------------------------------
(* The network.  Encoder and Decoder are deterministic functions of their  *)
(* inputs, the parameters and the dropout noise (zero in evaluation mode); *)
(* every batch element is computed independently of the others.            *)

Draws == 0..9                \* random.random(), in tenths: a value of [0, 1)

DefaultRatio == 5            \* teacher_forcing_ratio: float = 0.5, in tenths

teacher_forcing_ratio == 8   \* the driver's setting 0.8, in tenths

N_EPOCHS == 5

(* nn.Dropout draws noise only while the module is in training mode. *)
Noise(is_training) == IF is_training THEN {0, 1} ELSE {0}

ColumnSum(tensor, b) == SumSeq([r \in DOMAIN tensor |-> tensor[r][b]])

(* Encoder.forward: <<encoder_outputs, hidden>> *)
Encoder(source, theta, noise) ==
    << [b \in DOMAIN source[1] |-> (ColumnSum(source, b) + theta + noise) % Levels],
       [b \in DOMAIN source[1] |-> (2 * ColumnSum(source, b) + theta + noise + 1) % Levels] >>

(* Decoder.forward: <<logits, decoder_hidden>> *)
Decoder(input, decoder_hidden, enc_out, theta, noise) ==
    << [b \in DOMAIN input |->
          [v \in 1..OUTPUT_DIM |->
              ((input[b] + decoder_hidden[b] + enc_out[b] + theta + noise + v) % Levels) + 1]],
       [b \in DOMAIN input |->
          (input[b] + decoder_hidden[b] + enc_out[b] + theta + noise + 1) % Levels] >>

(* output.max(1)[1]: per batch element the first index of a largest score *)
ArgMax(logits) ==
    (CHOOSE i \in DOMAIN logits :
        /\ \A j \in DOMAIN logits : logits[j] <= logits[i]
        /\ \A j \in DOMAIN logits : logits[j] = logits[i] => i <= j) - 1

Top1(logit_rows) == [b \in DOMAIN logit_rows |-> ArgMax(logit_rows[b])]

(* loss.backward, clip_grad_norm_, optimizer.step: the parameters move *)
Adam(theta, batch_loss) == (theta + batch_loss + 1) % Levels

(* A plausible slip: the decoding loop starts at timestep 0. *)
FirstStep_zero == 1 - 1

(* range(1, max_len) *)
FirstStep == 1

(* A plausible slip: evaluate calls the model with the default ratio. *)
EvaluateRatio_default == DefaultRatio

(* model(src, trg, 0) *)
EvaluateRatio == 0

(* model(src, trg) *)
TrainRatio == DefaultRatio

(* A plausible slip: evaluate does not switch the model to evaluation mode. *)
model_eval_skipped(is_training) == is_training

model_eval(is_training) == FALSE

model_train(is_training) == TRUE

(* A plausible slip: the comparison is written the other way round. *)
SaveGuard_inverted(previous, current) == previous < current

(* if old_loss > train_loss *)
SaveGuard(previous, current) == previous > current

(* random.random() < teacher_forcing_ratio: the values the draws can give *)
TeacherForce(ratio) == {r < ratio : r \in Draws}

(* One pass over a DataLoader: the collated batches of a shuffled data set *)
Pass(data, p) == [k \in DOMAIN Chunks(data, p) |-> generate_batch(Chunks(data, p)[k])]

----------------------------------------------------------------------------
(* Seq2Seq.forward, lines 162-185.  Timestep k is row k+1 of a tensor; t   *)
(* is the timestep the loop runs next.                                     *)

(* lines 167-176 *)
ForwardEnter(source, target, ratio) ==
    /\ src' = source /\ trg' = target /\ tf_ratio' = ratio
    /\ outputs' = [r \in DOMAIN target |-> ZeroRow(Len(source[1]), OUTPUT_DIM)]
    /\ \E noise \in Noise(training) :
          /\ encoder_outputs' = Encoder(source, params, noise)[1]
          /\ hidden' = Encoder(source, params, noise)[2]
    /\ output' = target[1]
    /\ t' = FirstStep
    /\ teacher_force' = FALSE
    /\ calls' = 0
    /\ writes' = [r \in DOMAIN target |-> 0]

(* lines 178-183: one iteration of the loop *)
DecodeStep ==
    /\ pc = "L178"
    /\ t < Len(trg)
    /\ \E noise \in Noise(training), force \in TeacherForce(tf_ratio) :
         LET step == Decoder(output, hidden, encoder_outputs, params, noise)
         IN  /\ outputs' = [outputs EXCEPT ![t + 1] = step[1]]
             /\ hidden' = step[2]
             /\ teacher_force' = force
             /\ output' = IF force THEN trg[t + 1] ELSE Top1(step[1])
    /\ writes' = [writes EXCEPT ![t + 1] = @ + 1]
    /\ calls' = calls + 1
    /\ t' = t + 1
    /\ UNCHANGED <<pc, error, dataVars, src, trg, loss, tf_ratio, encoder_outputs,
                   loopVars, mainVars, bleuVars>>

(* line 185: the loop is over, the logits go back to the caller; the      *)
(* other locals of forward go out of scope.                                *)
ForwardReturn ==
    /\ pc = "L178"
    /\ t >= Len(trg)
    /\ pc' = IF caller = "train" THEN "L203"
             ELSE IF caller = "evaluate" THEN "L231" ELSE "returned"
    /\ output' = <<>> /\ hidden' = <<>> /\ encoder_outputs' = <<>>
    /\ teacher_force' = FALSE
    /\ UNCHANGED <<error, dataVars, src, trg, loss, tf_ratio, outputs, t, calls,
                   writes, loopVars, mainVars, bleuVars>>

----------------------------------------------------------------------------
(* train, lines 187-216, and the epoch loop, lines 347-363 *)

(* The logits and the bookkeeping of a finished forward call are not read  *)
(* after the loss is taken: the next batch overwrites them.                *)
ForwardForgotten ==
    /\ outputs' = <<>> /\ tf_ratio' = Unset /\ t' = 0 /\ calls' = 0 /\ writes' = <<>>

(* lines 347-349 *)
StartTraining ==
    /\ pc = "L347" /\ mode = "train"
    /\ old_loss' = 0
    /\ pc' = "L350"
    /\ UNCHANGED <<error, dataVars, src, trg, loss, fwdVars, loopVars, mode, epoch,
                   train_loss, saved, losses, bleuVars>>

(* lines 350-354 and 193-196: an epoch starts and calls train *)
EpochBegin ==
    /\ pc = "L350" /\ epoch < N_EPOCHS
    /\ training' = model_train(training)
    /\ epoch_loss' = 0
    /\ caller' = "train"
    /\ \E p \in Perms(Len(train_data)) : pending' = Pass(train_data, p)
    /\ n_batches' = NumBatches(Len(train_data))
    /\ pc' = "L196"
    /\ UNCHANGED <<error, dataVars, src, trg, loss, fwdVars, params, mainVars,
                   bleuVars>>

(* lines 196-201: the next batch, zero_grad, model(src, trg) *)
TrainBatch ==
    /\ pc = "L196" /\ pending # <<>>
    /\ ForwardEnter(Head(pending)[1], Head(pending)[2], TrainRatio)
    /\ pending' = Tail(pending)
    /\ pc' = "L178"
    /\ UNCHANGED <<error, dataVars, loss, training, params, caller, n_batches,
                   epoch_loss, mainVars, bleuVars>>

(* lines 203-214: loss, backward pass, clipping, optimizer step *)
TrainStep ==
    /\ pc = "L203"
    /\ IF criterionRaises(Flatten(Tail(outputs)), Flatten(Tail(trg)), ignore_index)
       THEN /\ error' = "IndexError" /\ pc' = "crashed"
            /\ UNCHANGED <<loss, params, epoch_loss>>
       ELSE /\ loss' = criterion(Flatten(Tail(outputs)), Flatten(Tail(trg)), ignore_index)
            /\ params' = Adam(params, loss')
            /\ epoch_loss' = epoch_loss + loss'
            /\ pc' = "L196" /\ UNCHANGED error
    /\ ForwardForgotten
    /\ UNCHANGED <<dataVars, src, trg, output, hidden, encoder_outputs, teacher_force,
                   training, caller, pending, n_batches, mainVars, bleuVars>>

(* lines 216 and 354: train returns the mean loss of the pass; its locals  *)
(* go out of scope.                                                        *)
TrainReturn ==
    /\ pc = "L196" /\ pending = <<>>
    /\ train_loss' = epoch_loss \div n_batches
    /\ caller' = "none"
    /\ src' = <<>> /\ trg' = <<>> /\ loss' = 0 /\ epoch_loss' = 0 /\ n_batches' = 0
    /\ pc' = "L358"
    /\ UNCHANGED <<error, dataVars, fwdVars, training, params, pending,
                   mode, epoch, old_loss, saved, losses, bleuVars>>

(* lines 358-363: the checkpoint test and the epoch's report; old_loss is *)
(* not assigned.  train_loss is not read again before line 354 assigns it *)
(* in the next epoch, so its value is dropped here.                       *)
Checkpoint ==
    /\ pc = "L358"
    /\ saved' = IF SaveGuard(old_loss, train_loss) THEN saved + 1 ELSE saved
    /\ epoch' = epoch + 1
    /\ train_loss' = 0
    /\ pc' = "L350"
    /\ UNCHANGED <<error, dataVars, src, trg, loss, fwdVars, loopVars, mode, old_loss,
                   losses, bleuVars>>

(* the epoch loop is over *)
TrainingDone ==
    /\ pc = "L350" /\ epoch >= N_EPOCHS
    /\ pc' = "done"
    /\ UNCHANGED <<error, dataVars, src, trg, loss, fwdVars, loopVars, mainVars,
                   bleuVars>>

----------------------------------------------------------------------------
(* evaluate, lines 218-238, and test mode, lines 365-369 *)

EvalRuns == 2    \* calls of evaluate whose results are compared

EvaluateEnter ==
    /\ training' = model_eval(training)
    /\ epoch_loss' = 0
    /\ caller' = "evaluate"
    /\ \E p \in Perms(Len(test_data)) : pending' = Pass(test_data, p)
    /\ n_batches' = NumBatches(Len(test_data))
    /\ pc' = "L226"
    /\ UNCHANGED <<error, dataVars, src, trg, loss, fwdVars, params, mainVars,
                   bleuVars>>

(* lines 365-368 and 222-226: test mode calls evaluate *)
TestMode == pc = "L347" /\ mode = "test" /\ EvaluateEnter

(* evaluate is called once more on the same iterator and model *)
EvaluateAgain == pc = "L369" /\ Len(losses) < EvalRuns /\ EvaluateEnter

(* lines 226-229: the next batch, model(src, trg, 0) *)
EvalBatch ==
    /\ pc = "L226" /\ pending # <<>>
    /\ ForwardEnter(Head(pending)[1], Head(pending)[2], EvaluateRatio)
    /\ pending' = Tail(pending)
    /\ pc' = "L178"
    /\ UNCHANGED <<error, dataVars, loss, training, params, caller, n_batches,
                   epoch_loss, mainVars, bleuVars>>

(* lines 231-236: loss; no backward pass, no optimizer step *)
EvalStep ==
    /\ pc = "L231"
    /\ IF criterionRaises(Flatten(Tail(outputs)), Flatten(Tail(trg)), ignore_index)
       THEN /\ error' = "IndexError" /\ pc' = "crashed"
            /\ UNCHANGED <<loss, epoch_loss>>
       ELSE /\ loss' = criterion(Flatten(Tail(outputs)), Flatten(Tail(trg)), ignore_index)
            /\ epoch_loss' = epoch_loss + loss'
            /\ pc' = "L226" /\ UNCHANGED error
    /\ ForwardForgotten
    /\ UNCHANGED <<dataVars, src, trg, output, hidden, encoder_outputs, teacher_force,
                   training, params, caller, pending, n_batches, mainVars, bleuVars>>

(* lines 238 and 368: evaluate returns the mean loss of the pass; its     *)
(* locals go out of scope.                                                *)
EvalReturn ==
    /\ pc = "L226" /\ pending = <<>>
    /\ losses' = Append(losses, epoch_loss \div n_batches)
    /\ caller' = "none"
    /\ src' = <<>> /\ trg' = <<>> /\ loss' = 0 /\ epoch_loss' = 0 /\ n_batches' = 0
    /\ pc' = "L369"
    /\ UNCHANGED <<error, dataVars, fwdVars, training, params, pending,
                   mode, epoch, old_loss, train_loss, saved, bleuVars>>

----------------------------------------------------------------------------
(* The script after its set-up (line 345), for training files whose source *)
(* lines all read "haus" and test files equal to the training files.       *)

SetUp(de_lines, en_lines) ==
    /\ train_de = de_lines /\ train_en = en_lines
    /\ de_vocab = set_default_index(loadVoc(de_lines), Lookup(loadVoc(de_lines), "<unk>"))
    /\ en_vocab = set_default_index(loadVoc(en_lines), Lookup(loadVoc(en_lines), "<unk>"))
    /\ PAD_IDX = Lookup(de_vocab, "<pad>")
    /\ BOS_IDX = Lookup(de_vocab, "<bos>")
    /\ EOS_IDX = Lookup(de_vocab, "<eos>")
    /\ train_data = dataPrep(en_lines, de_lines)
    /\ test_data = dataPrep(en_lines, de_lines)
    /\ PAD_IDX2 = Lookup(en_vocab, "<pad>")
    /\ ignore_index = Lookup(en_vocab, "<pad>")
    /\ data_batch = <<>>

InitRun ==
    /\ pc = "L347" /\ error = "none"
    /\ \E en_lines \in Files(EnTokens) :
          SetUp([i \in DOMAIN en_lines |-> <<"haus">>], en_lines)
    /\ IdleBatch /\ IdleFwd /\ IdleLoop /\ IdleBleu
    /\ mode \in {"train", "test", "translate"}
    /\ epoch = 0 /\ old_loss = 0 /\ train_loss = 0 /\ saved = 0 /\ losses = <<>>

NextRun ==
    \/ StartTraining \/ EpochBegin \/ TrainBatch \/ DecodeStep \/ ForwardReturn
    \/ TrainStep \/ TrainReturn \/ Checkpoint \/ TrainingDone
    \/ TestMode \/ EvaluateAgain \/ EvalBatch \/ EvalStep \/ EvalReturn

SpecRun == InitRun /\ [][NextRun]_vars

----------------------------------------------------------------------------
(* Seq2Seq.forward alone: any target of 1 .. MaxLineLen + 2 rows whose     *)
(* first row holds the start markers, any of four ratios, either mode.     *)

Ratios == {0, DefaultRatio, teacher_forcing_ratio, 10}

Targets ==
    UNION {{[r \in 1..len |-> [b \in 1..width |-> IF r = 1 THEN BOS_IDX ELSE body[r]]]
            : body \in [1..len -> {EOS_IDX, Lookup(en_vocab, "house")}]}
           : <<len, width>> \in (1..(MaxLineLen + 2)) \X (1..MaxLines)}

InitForward ==
    /\ pc = "L167" /\ error = "none"
    /\ SetUp(<< <<"haus">> >>, << <<"house">> >>)
    /\ trg \in Targets
    /\ src = [r \in 1..2 |-> [b \in DOMAIN trg[1] |-> IF r = 1 THEN BOS_IDX ELSE EOS_IDX]]
    /\ tf_ratio \in Ratios
    /\ training \in BOOLEAN
    /\ params = init_weights /\ caller = "none"
    /\ pending = <<>> /\ n_batches = 0 /\ epoch_loss = 0
    /\ loss = 0
    /\ outputs = <<>> /\ output = <<>> /\ hidden = <<>> /\ encoder_outputs = <<>>
    /\ t = 0 /\ teacher_force = FALSE /\ calls = 0 /\ writes = <<>>
    /\ IdleMain /\ IdleBleu

(* model(src, trg, teacher_forcing_ratio) *)
ForwardCall ==
    /\ pc = "L167"
    /\ ForwardEnter(src, trg, tf_ratio)
    /\ pc' = "L178"
    /\ UNCHANGED <<error, dataVars, loss, loopVars, mainVars, bleuVars>>

NextForward == ForwardCall \/ DecodeStep \/ ForwardReturn

SpecForward == InitForward /\ [][NextForward]_vars

(* loadVoc alone, on corpora over a larger alphabet: the script up to line 300 *)
InitVocab ==
    /\ pc = "L292" /\ error = "none"
    /\ train_de \in Files(VocTokens) /\ train_en \in Files(EnTokens)
    /\ de_vocab = NoVocab /\ en_vocab = NoVocab
    /\ PAD_IDX = Unset /\ BOS_IDX = Unset /\ EOS_IDX = Unset /\ PAD_IDX2 = Unset
    /\ train_data = <<>> /\ test_data = <<>>
    /\ ignore_index = Unset /\ data_batch = <<>>
    /\ IdleBatch /\ IdleFwd /\ IdleLoop /\ IdleMain /\ IdleBleu

NextVocab ==
    \/ LoadDeVocab \/ LoadEnVocab \/ SetDefaultDe \/ SetDefaultEn \/ SpecialIndices

SpecVocab == InitVocab /\ [][NextVocab]_vars

----------------------------------------------------------------------------
(* Properties of the vocabulary and data pipeline *)

FileTokens(lines) == UNION {Range(lines[i]) : i \in DOMAIN lines}

ReservedFirst(v) ==
    \A k \in DOMAIN specials : Contains(v, specials[k]) /\ Lookup(v, specials[k]) = k - 1

UniqueIndices(v) ==
    \A i, j \in DOMAIN v.itos : v.itos[i] = v.itos[j] => i = j

CorpusIndexed(v, lines) ==
    \A tok \in FileTokens(lines) :
        /\ Contains(v, tok)
        /\ tok \notin Range(specials) => Lookup(v, tok) >= Len(specials)

WellBuilt(v, lines) == ReservedFirst(v) /\ UniqueIndices(v) /\ CorpusIndexed(v, lines)

(* C10: every vocabulary loadVoc builds holds the four reserved symbols at  *)
(* indices 0, 1, 2, 3 in that order, whatever the corpus holds (a reserved  *)
(* symbol as a token included); every index is given to one token only,     *)
(* every other corpus token has an index >= 4, and the source and target    *)
(* vocabularies agree on the reserved symbols' indices.                     *)
C10_ReservedSymbolsFixed ==
    /\ de_vocab # NoVocab => WellBuilt(de_vocab, train_de)
    /\ en_vocab # NoVocab => WellBuilt(en_vocab, train_en)
    /\ (de_vocab # NoVocab /\ en_vocab # NoVocab) =>
          \A k \in DOMAIN specials :
              Lookup(de_vocab, specials[k]) = Lookup(en_vocab, specials[k])

C10_Witness ==
    /\ pc = "L302"
    /\ {"<eos>", "the"} \subseteq FileTokens(train_de)
    /\ Len(de_vocab.itos) = Len(specials) + 1
    /\ Len(en_vocab.itos) = Len(specials) + 1

AllTokens == DeTokens \cup EnTokens \cup TestDeTokens \cup TestEnTokens \cup VocTokens

ResolvesAll(v) ==
    \A tok \in AllTokens :
        /\ ~LookupRaises(v, tok)
        /\ ~Contains(v, tok) => Lookup(v, tok) = Lookup(v, "<unk>")

(* C9: both default indices are set to the index of <unk> before dataPrep   *)
(* runs, so no lookup in dataPrep raises, and a token the training corpus   *)
(* lacks resolves to the unknown index.                                     *)
C9_UnknownTokensResolve ==
    /\ error # "RuntimeError"
    /\ pc \in {"L302", "L303"} => ResolvesAll(de_vocab) /\ ResolvesAll(en_vocab)
    /\ \A i \in DOMAIN test_data :
          /\ \A k \in DOMAIN test_data[i][1] :
                test_data[i][1][k] = Lookup(de_vocab, "<unk>")
          /\ \A k \in DOMAIN test_data[i][2] :
                test_data[i][2][k] = Lookup(en_vocab, "<unk>")

C9_Witness ==
    /\ pc = "L340" /\ error = "none"
    /\ Len(train_data) = 2
    /\ test_data = << << <<0>>, <<0>> >> >>

Collated == pc \in {"L206", "scored"}

(* C5: each tensor generate_batch returns has (longest input sequence of    *)
(* its own side) + 2 rows and one entry per input pair in every row, empty  *)
(* input sequences included.                                                *)
C5_PaddedLength ==
    Collated =>
        /\ data_batch # <<>>
        /\ Len(src) = Max({Len(data_batch[b][1]) : b \in DOMAIN data_batch}) + 2
        /\ Len(trg) = Max({Len(data_batch[b][2]) : b \in DOMAIN data_batch}) + 2
        /\ \A r \in DOMAIN src : Len(src[r]) = Len(data_batch)
        /\ \A r \in DOMAIN trg : Len(trg[r]) = Len(data_batch)

C5_Witness ==
    /\ Collated
    /\ Len(data_batch) = 2
    /\ data_batch[1][1] = <<>>
    /\ Len(src) = 3 /\ Len(trg) = 2

AltVectors(dim) ==
    {[v \in 1..dim |-> c] : c \in 0..(Levels - 1)}
    \cup {[v \in 1..dim |-> IF v = w THEN Levels - 1 ELSE 0] : w \in 1..dim}

(* Row r of column b was filled by the collator's padding. *)
PaddedTarget(r, b) == r > Len(data_batch[b][2]) + 2

FlatIndex(r, b) == (r - 2) * Len(data_batch) + b

PaddedPositions ==
    {FlatIndex(r, b) : <<r, b>> \in
        {q \in (2..Len(trg)) \X (DOMAIN data_batch) : PaddedTarget(q[1], q[2])}}

(* C6: the index the collator pads the target with is the index the        *)
(* criterion ignores, every padded target position of rows 1.. is left out *)
(* of the loss, and replacing the logits there leaves the loss unchanged.  *)
C6_PaddingIgnored ==
    /\ ignore_index # Unset => PAD_IDX = ignore_index
    /\ pc = "scored" =>
          LET flat_out == Flatten(Tail(outputs))
              flat_trg == Flatten(Tail(trg))
          IN  \A i \in PaddedPositions :
                  /\ \A alt \in AltVectors(OUTPUT_DIM) :
                        criterion([flat_out EXCEPT ![i] = alt], flat_trg, ignore_index)
                            = loss
                  /\ i \notin Counted(flat_trg, ignore_index)

C6_Witness ==
    /\ pc = "scored"
    /\ \E r \in 2..Len(trg) : \E b \in DOMAIN data_batch :
          PaddedTarget(r, b) /\ trg[r][b] = PAD_IDX
    /\ loss > 0

----------------------------------------------------------------------------
(* testBleuScore(encoder, decoder, pairs), lines 248-259 *)

MaxPairs == 2

Sentences == {"ein haus", "eine katze", "ein hund"}

References == {"a house", "a cat"}

(* What line 253 can meet.  evaluate (line 218) takes (model, iterator,    *)
(* criterion) and returns one float: called with (encoder, decoder,        *)
(* pair[0]) it raises before returning (a TypeError when the decoder is    *)
(* not iterable, a RuntimeError from a tensor operation when it is), or it *)
(* returns a float.  It never returns a pair.                              *)
EvaluateOutcomes == {"RuntimeError", "TypeError", "float"}

(* sentence_bleu([output_sent], pair[1], smooth), abstracted *)
sentence_bleu(hypothesis, reference) == IF hypothesis = reference THEN 1 ELSE 0

InitBleu ==
    /\ pc = "L251" /\ error = "none"
    /\ pairs \in SeqsUpTo(Sentences \X References, MaxPairs)
    /\ pair_i = 0 /\ output_words = "unbound" /\ bleu = <<>>
    /\ IdleData /\ IdleBatch /\ IdleFwd /\ IdleLoop /\ IdleMain

(* line 251: the next pair, or the end of the loop *)
BleuNext ==
    /\ pc = "L251"
    /\ IF pair_i < Len(pairs)
       THEN pair_i' = pair_i + 1 /\ pc' = "L253"
       ELSE pc' = "L258" /\ UNCHANGED pair_i
    /\ UNCHANGED <<error, dataVars, src, trg, loss, fwdVars, loopVars, mainVars,
                   pairs, output_words, bleu>>

(* lines 252-255: only RuntimeError is caught; a float cannot be unpacked  *)
(* into output_words, attentions.                                          *)
BleuEvaluate ==
    /\ pc = "L253"
    /\ \E outcome \in EvaluateOutcomes :
          IF outcome = "RuntimeError"
          THEN pc' = "L256" /\ UNCHANGED error
          ELSE pc' = "crashed" /\ error' = "TypeError"
    /\ UNCHANGED <<dataVars, src, trg, loss, fwdVars, loopVars, mainVars, bleuVars>>

(* lines 256-257: join the words and score them *)
BleuScore ==
    /\ pc = "L256"
    /\ IF output_words = "unbound"
       THEN pc' = "crashed" /\ error' = "UnboundLocalError" /\ UNCHANGED bleu
       ELSE /\ bleu' = Append(bleu, sentence_bleu(output_words, pairs[pair_i][2]))
            /\ pc' = "L251" /\ UNCHANGED error
    /\ UNCHANGED <<dataVars, src, trg, loss, fwdVars, loopVars, mainVars,
                   pairs, pair_i, output_words>>

(* lines 258-259 *)
BleuReturn ==
    /\ pc = "L258"
    /\ pc' = "returned"
    /\ UNCHANGED <<error, dataVars, src, trg, loss, fwdVars, loopVars, mainVars,
                   bleuVars>>

NextBleu == BleuNext \/ BleuEvaluate \/ BleuScore \/ BleuReturn

SpecBleu == InitBleu /\ [][NextBleu]_vars

----------------------------------------------------------------------------
(* Properties of the sequence driver, the loops and the epoch loop *)

LogitsHeld == pc \in {"L178", "returned", "L203", "L231"}

(* C2: a forward call on a target of T >= 1 rows runs the decoder once for  *)
(* each timestep 1 .. T-1 in turn and then returns; each of those rows of   *)
(* the logits is written exactly once, row 0 is never written and stays     *)
(* zero, and the first decoder input is row 0 of the target.                *)
C2_DecodesEachStepOnce ==
    LogitsHeld =>
        /\ t >= 1 /\ t <= Len(trg)
        /\ calls = t - 1
        /\ \A r \in DOMAIN writes : writes[r] = IF r >= 2 /\ r <= t THEN 1 ELSE 0
        /\ Len(outputs) = Len(trg)
        /\ outputs[1] = ZeroRow(Len(src[1]), OUTPUT_DIM)
        /\ (pc = "L178" /\ calls = 0) => output = trg[1]
        /\ pc # "L178" => calls = Len(trg) - 1

C2_Witness ==
    /\ pc = "returned"
    /\ Len(trg) = 3 /\ Len(trg[1]) = 2
    /\ calls = 2 /\ writes = <<0, 1, 1>>
    /\ tf_ratio = teacher_forcing_ratio
    /\ outputs[2] # outputs[1]

(* C3: while evaluate runs the driver no draw forces the teacher: the next *)
(* decoder input is always the argmax of the logits just computed.         *)
C3_EvaluateIsGreedy ==
    (caller = "evaluate" /\ pc = "L178") =>
        /\ \A r \in Draws : ~(r < tf_ratio)
        /\ teacher_force = FALSE
        /\ t > 1 => output = Top1(outputs[t])

C3_Witness ==
    /\ caller = "evaluate" /\ pc = "L178"
    /\ t = 3
    /\ output # trg[t]
    /\ output = Top1(outputs[t])

(* C4: in train the driver forces the teacher with the configured           *)
(* probability: the draws that force it are teacher_forcing_ratio tenths.   *)
C4_TrainUsesConfiguredRatio ==
    (caller = "train" /\ pc = "L178") =>
        Cardinality({r \in Draws : r < tf_ratio}) = teacher_forcing_ratio

(* C1: old_loss stays 0, the save guard is false in every epoch and the     *)
(* checkpoint is never written.                                             *)
C1_CheckpointNeverSaved ==
    /\ saved = 0
    /\ old_loss = 0
    /\ pc = "L358" => (train_loss >= 0 /\ ~SaveGuard(old_loss, train_loss))

C1_Witness ==
    /\ pc = "L358" /\ epoch = N_EPOCHS - 1
    /\ train_loss > 0
    /\ saved = 0

(* C7: in test mode the parameters stay as initialised, and every call of   *)
(* evaluate returns the same loss.                                          *)
C7_EvaluateRepeatable ==
    mode = "test" =>
        /\ params = init_weights
        /\ \A i, j \in DOMAIN losses : losses[i] = losses[j]

C7_Witness ==
    /\ mode = "test"
    /\ Len(losses) = EvalRuns
    /\ losses[1] > 0
    /\ Len(test_data) = 2

(* C8: an error raised while a pair is evaluated is swallowed, the loop    *)
(* goes on, and the pair is scored all the same: the loop never aborts and *)
(* holds one score for each pair it has been through.                      *)
C8_ErrorsSwallowedAndScored ==
    /\ error = "none"
    /\ pc \in {"L251", "L258", "returned"} => Len(bleu) = pair_i

====
